---------------------------- MODULE Spec2Model ----------------------------
(***************************************************************************)
(* Model of the test-automation report backend (src/main.py,              *)
(* src/schemas.py): the four collections of the document store, the       *)
(* handlers that write and read them, and the pydantic models that        *)
(* validate what is written.                                              *)
(*                                                                         *)
(* Conventions.                                                            *)
(*  - An Optional[T] value is a set with at most one element: None is {}   *)
(*    and a present value v is {v}.                                        *)
(*  - An ObjectId is a positive natural number.  An id string is a pair    *)
(*    <<n, spelling>>: <<n, "lower">> is the 24 lower-case hex digits that *)
(*    str(ObjectId) prints, <<n, "upper">> is the same digits upper-cased  *)
(*    (ObjectId() parses both), and <<0, "bad">> is a string that is not   *)
(*    24 hex digits.                                                       *)
(*  - A datetime is an integer; datetime.now() reads the variable clock    *)
(*    and advances it.                                                     *)
(*  - Spec takes every request as one step.  SpecRead and SpecFinish take  *)
(*    an ingest one store operation at a time, in the variable ingesting   *)
(*    (<<>> or the one request in progress), and SpecRead does the same    *)
(*    for a get_run_detail, in reading; other requests run between their   *)
(*    steps.                                                               *)
(*  - The pass-through strings environment, branch, build, platform,      *)
(*    class_name, error_message, error_trace, category, author, step and   *)
(*    attachment_url are copied exactly like name and message are, and are *)
(*    left out of the records.                                             *)
(***************************************************************************)
EXTENDS Integers, Sequences, FiniteSets, TLC

VARIABLES db, clock, request, response, calls, ingesting, reading

vars == <<db, clock, request, response, calls, ingesting, reading>>

\* ------------------------------------------------------------------ bounds

\* The number of calls (requests handled) in one behaviour.
MaxCalls == 2

\* ---------------------------------------------------------------- optionals

None == {}

Some(v) == {v}

Val(o) == CHOOSE v \in o : TRUE

\* `x or d` of Python for an Optional[int] x: None and 0 both give d = 0.
OrZero(o) == IF o = None \/ Val(o) = 0 THEN 0 ELSE Val(o)

\* A field of a request body that is absent takes the model's default.
Default(o, d) == IF o = None THEN d ELSE Val(o)

\* --------------------------------------------------------------------- ids

Str(oid) == <<oid, "lower">>

BadId == <<0, "bad">>

\* An ObjectId constructor that raises for no string.
WellFormedAlways(s) == TRUE

WellFormed(s) == s[2] \in {"lower", "upper"}

\* ObjectId(id_str): the ObjectId the string spells; the caller has checked
\* WellFormed, otherwise to_object_id raises HTTPException(400).
to_object_id(s) == s[1]

\* datetime.isoformat()
IsoFormat(t) == <<"iso", t>>

\* ------------------------------------------------------------------ schemas

Statuses == {"running", "passed", "failed", "skipped", "blocked"}

Levels == {"INFO", "WARN", "ERROR", "DEBUG", "STEP"}

NonNegOpt(o) == o = None \/ Val(o) >= 0

\* TestRun(**fields): the validated model, fields with defaults applied.
TestRun(f) ==
    [name |-> Val(f.name),
     status |-> Default(f.status, "running"),
     started_at |-> f.started_at,
     finished_at |-> f.finished_at,
     duration_ms |-> f.duration_ms,
     total |-> Default(f.total, 0),
     passed |-> Default(f.passed, 0),
     failed |-> Default(f.failed, 0),
     skipped |-> Default(f.skipped, 0),
     blocked |-> Default(f.blocked, 0),
     tags |-> f.tags]

\* Whether TestRun(**fields) validates (else pydantic raises ValidationError).
TestRunValid(f) ==
    /\ f.name # None
    /\ Default(f.status, "running") \in Statuses
    /\ NonNegOpt(f.duration_ms)
    /\ Default(f.total, 0) >= 0
    /\ Default(f.passed, 0) >= 0
    /\ Default(f.failed, 0) >= 0
    /\ Default(f.skipped, 0) >= 0
    /\ Default(f.blocked, 0) >= 0

TestSuite(f) ==
    [run_id |-> Val(f.run_id),
     name |-> Val(f.name),
     status |-> Default(f.status, "running"),
     duration_ms |-> f.duration_ms,
     total |-> Default(f.total, 0),
     passed |-> Default(f.passed, 0),
     failed |-> Default(f.failed, 0),
     skipped |-> Default(f.skipped, 0),
     order |-> f.order]

\* The counters of a TestSuite carry no ge=0 constraint.
TestSuiteValid(f) ==
    /\ f.run_id # None
    /\ f.name # None
    /\ Default(f.status, "running") \in Statuses
    /\ NonNegOpt(f.duration_ms)

TestCase(f) ==
    [run_id |-> Val(f.run_id),
     suite_id |-> Val(f.suite_id),
     name |-> Val(f.name),
     status |-> Default(f.status, "running"),
     duration_ms |-> f.duration_ms,
     retries |-> Default(f.retries, 0)]

TestCaseValid(f) ==
    /\ f.run_id # None
    /\ f.suite_id # None
    /\ f.name # None
    /\ Default(f.status, "running") \in Statuses
    /\ NonNegOpt(f.duration_ms)

LogEntry(f) ==
    [run_id |-> Val(f.run_id),
     case_id |-> Val(f.case_id),
     level |-> Default(f.level, "INFO"),
     message |-> Val(f.message),
     timestamp |-> f.timestamp]

LogEntryValid(f) ==
    /\ f.run_id # None
    /\ f.case_id # None
    /\ f.message # None
    /\ Default(f.level, "INFO") \in Levels

ForAll(seq, P(_)) == \A i \in 1..Len(seq) : P(seq[i])

Map(seq, F(_)) == [i \in 1..Len(seq) |-> F(seq[i])]

\* IngestCase: status is required, duration_ms is unconstrained, logs is a
\* List[LogEntry] (each element validated as a full LogEntry).
IngestCaseValid(c) ==
    /\ c.name # None
    /\ c.status # None /\ Val(c.status) \in Statuses
    /\ ForAll(c.logs, LogEntryValid)

IngestCase(c) ==
    [name |-> Val(c.name),
     status |-> Val(c.status),
     duration_ms |-> c.duration_ms,
     retries |-> Default(c.retries, 0),
     logs |-> Map(c.logs, LogEntry)]

IngestSuiteValid(s) ==
    /\ s.name # None
    /\ s.status # None /\ Val(s.status) \in Statuses
    /\ ForAll(s.cases, IngestCaseValid)

IngestSuite(s) ==
    [name |-> Val(s.name),
     status |-> Val(s.status),
     duration_ms |-> s.duration_ms,
     total |-> s.total,
     passed |-> s.passed,
     failed |-> s.failed,
     skipped |-> s.skipped,
     order |-> s.order,
     cases |-> Map(s.cases, IngestCase)]

IngestRunValid(p) ==
    /\ p.name # None
    /\ p.status # None /\ Val(p.status) \in Statuses
    /\ ForAll(p.suites, IngestSuiteValid)

IngestRun(p) ==
    [name |-> Val(p.name),
     status |-> Val(p.status),
     started_at |-> p.started_at,
     finished_at |-> p.finished_at,
     duration_ms |-> p.duration_ms,
     tags |-> p.tags,
     suites |-> Map(p.suites, IngestSuite)]

\* ----------------------------------------------------------- document store

\* dict(doc, **upd): the fields of upd, and those of doc that upd lacks.
Merge(upd, doc) ==
    [k \in DOMAIN upd \cup DOMAIN doc |->
        IF k \in DOMAIN upd THEN upd[k] ELSE doc[k]]

Collections == {"testrun", "testsuite", "testcase", "logentry"}

EmptyDb == [c \in Collections |-> <<>>]

\* The ObjectId the store generates for the next inserted document: unique
\* over all documents ever inserted (no handler deletes).
NewOid(d) ==
    Len(d.testrun) + Len(d.testsuite) + Len(d.testcase) + Len(d.logentry) + 1

\* create_document(collection, data): the store after the insert; the call
\* returns Str(NewOid(d)).
create_document(d, coll, data) ==
    [d EXCEPT ![coll] = Append(@, Merge([_id |-> NewOid(d)], data))]

\* collection.find(filter) without a sort: the matching documents in
\* insertion order.
Find(seq, P(_)) == SelectSeq(seq, P)

\* collection.find_one({"_id": oid}): the documents with that id (none or one).
FindById(seq, oid) == Find(seq, LAMBDA x : x._id = oid)

\* collection.update_one({"_id": oid}, {"$set": upd}): upd's fields replace
\* the document's; a filter that matches nothing changes nothing.
update_one(seq, oid, upd) ==
    [i \in 1..Len(seq) |-> IF seq[i]._id = oid THEN Merge(upd, seq[i]) ELSE seq[i]]

\* --------------------------------------------------------------- ingestion

\* The handler's local state right after the request body has been validated
\* into an IngestRun p: nothing written yet.
IngestStart(d, t, p) ==
    [db |-> d, clock |-> t, p |-> p, pc |-> "run",
     run_id |-> BadId, suite_id |-> BadId, case_id |-> BadId,
     si |-> 1, ci |-> 1, li |-> 1,
     total |-> 0, passed |-> 0, failed |-> 0, skipped |-> 0, blocked |-> 0]

\* Lines 192-203: the arguments of TestRun(...); started_at defaults to now.
RunFields(p, now) ==
    [name |-> Some(p.name), status |-> Some(p.status),
     started_at |-> IF p.started_at = None THEN Some(now) ELSE p.started_at,
     finished_at |-> p.finished_at, duration_ms |-> p.duration_ms,
     total |-> None, passed |-> None, failed |-> None, skipped |-> None,
     blocked |-> None, tags |-> p.tags]

\* A slip in line 219: an omitted order defaults to the position counted
\* from 1.
SuiteFieldsOrderFromOne(run_id, s, order) ==
    [run_id |-> Some(run_id), name |-> Some(s.name), status |-> Some(s.status),
     duration_ms |-> s.duration_ms,
     total |-> Some(OrZero(s.total)), passed |-> Some(OrZero(s.passed)),
     failed |-> Some(OrZero(s.failed)), skipped |-> Some(OrZero(s.skipped)),
     order |-> IF s.order # None THEN s.order ELSE Some(order + 1)]

\* Lines 210-220: the arguments of TestSuite(...) for the suite s at the
\* zero-based position order of the payload.
SuiteFields(run_id, s, order) ==
    [run_id |-> Some(run_id), name |-> Some(s.name), status |-> Some(s.status),
     duration_ms |-> s.duration_ms,
     total |-> Some(OrZero(s.total)), passed |-> Some(OrZero(s.passed)),
     failed |-> Some(OrZero(s.failed)), skipped |-> Some(OrZero(s.skipped)),
     order |-> IF s.order # None THEN s.order ELSE Some(order)]

\* A slip in line 232: the case is given the run's id as its suite_id.
CaseFieldsRunAsSuite(run_id, suite_id, c) ==
    [run_id |-> Some(run_id), suite_id |-> Some(run_id),
     name |-> Some(c.name), status |-> Some(c.status),
     duration_ms |-> c.duration_ms, retries |-> Some(c.retries)]

\* Lines 230-242: the arguments of TestCase(...).
CaseFields(run_id, suite_id, c) ==
    [run_id |-> Some(run_id), suite_id |-> Some(suite_id),
     name |-> Some(c.name), status |-> Some(c.status),
     duration_ms |-> c.duration_ms, retries |-> Some(c.retries)]

\* Lines 246-254: the arguments of LogEntry(...); timestamp defaults to now.
LogFields(run_id, case_id, l, now) ==
    [run_id |-> Some(run_id), case_id |-> Some(case_id),
     level |-> Some(l.level), message |-> Some(l.message),
     timestamp |-> IF l.timestamp = None THEN Some(now) ELSE l.timestamp]

\* A slip in line 224: passed accumulates the suite's total.
AccumulatePassedFromTotal(st, suite_data) ==
    [st EXCEPT !.total = @ + suite_data.total,
               !.passed = @ + suite_data.total,
               !.failed = @ + suite_data.failed,
               !.skipped = @ + suite_data.skipped,
               !.blocked = @ + 0]

\* Lines 223-227: the running sums after the suite suite_data.
Accumulate(st, suite_data) ==
    [st EXCEPT !.total = @ + suite_data.total,
               !.passed = @ + suite_data.passed,
               !.failed = @ + suite_data.failed,
               !.skipped = @ + suite_data.skipped,
               !.blocked = @ + 0]

\* Lines 261-267 with the payload's status written again by the $set.
RunAggregatesWithStatus(st) ==
    [total |-> st.total, passed |-> st.passed, failed |-> st.failed,
     skipped |-> st.skipped, blocked |-> st.blocked, status |-> st.p.status]

\* Lines 261-267: the $set of the final update.
RunAggregates(st) ==
    [total |-> st.total, passed |-> st.passed, failed |-> st.failed,
     skipped |-> st.skipped, blocked |-> st.blocked]

\* Lines 192-206 with a dedup key: a stored run of the same name is reused.
IngestRunStepDedup(st) ==
    LET f == RunFields(st.p, st.clock)
        t == IF st.p.started_at = None THEN st.clock + 1 ELSE st.clock
        same == Find(st.db.testrun, LAMBDA r : r.name = st.p.name)
    IN  IF ~TestRunValid(f) THEN [st EXCEPT !.pc = "error", !.clock = t]
        ELSE IF same # <<>>
        THEN [st EXCEPT !.clock = t, !.run_id = Str(same[1]._id),
                        !.pc = "suite", !.si = 1]
        ELSE [st EXCEPT !.db = create_document(st.db, "testrun", TestRun(f)),
                        !.clock = t,
                        !.run_id = Str(NewOid(st.db)),
                        !.pc = "suite", !.si = 1]

\* Lines 192-206: build the TestRun and insert it.
IngestRunStep(st) ==
    LET f == RunFields(st.p, st.clock)
        t == IF st.p.started_at = None THEN st.clock + 1 ELSE st.clock
    IN  IF ~TestRunValid(f) THEN [st EXCEPT !.pc = "error", !.clock = t]
        ELSE [st EXCEPT !.db = create_document(st.db, "testrun", TestRun(f)),
                        !.clock = t,
                        !.run_id = Str(NewOid(st.db)),
                        !.pc = "suite", !.si = 1]

\* Lines 209-227 with the run's counters brought up to date after each suite.
IngestSuiteStepUpdatingRun(st) ==
    IF st.si > Len(st.p.suites) THEN [st EXCEPT !.pc = "update"]
    ELSE
    LET f == SuiteFields(st.run_id, st.p.suites[st.si], st.si - 1)
        suite_data == TestSuite(f)
        st2 == Accumulate(st, suite_data)
        d2 == create_document(st.db, "testsuite", suite_data)
    IN  IF ~TestSuiteValid(f) THEN [st EXCEPT !.pc = "error"]
        ELSE [st2 EXCEPT
                !.db = [d2 EXCEPT !.testrun =
                           update_one(@, to_object_id(st.run_id),
                                      RunAggregates(st2))],
                !.suite_id = Str(NewOid(st.db)),
                !.pc = "case", !.ci = 1]

\* Lines 209-227: the next suite of the payload, or the end of the loop.
IngestSuiteStep(st) ==
    IF st.si > Len(st.p.suites) THEN [st EXCEPT !.pc = "update"]
    ELSE
    LET f == SuiteFields(st.run_id, st.p.suites[st.si], st.si - 1)
        suite_data == TestSuite(f)
        st2 == Accumulate(st, suite_data)
    IN  IF ~TestSuiteValid(f) THEN [st EXCEPT !.pc = "error"]
        ELSE [st2 EXCEPT
                !.db = create_document(st.db, "testsuite", suite_data),
                !.suite_id = Str(NewOid(st.db)),
                !.pc = "case", !.ci = 1]

\* Lines 229-243 with the loop of line 229 taking the cases last to first.
IngestCaseStepBackwards(st) ==
    LET cases == st.p.suites[st.si].cases
    IN  IF st.ci > Len(cases) THEN [st EXCEPT !.pc = "suite", !.si = @ + 1]
        ELSE
        LET f == CaseFields(st.run_id, st.suite_id, cases[Len(cases) + 1 - st.ci])
        IN  IF ~TestCaseValid(f) THEN [st EXCEPT !.pc = "error"]
            ELSE [st EXCEPT
                    !.db = create_document(st.db, "testcase", TestCase(f)),
                    !.case_id = Str(NewOid(st.db)),
                    !.pc = "log", !.li = 1]

\* Lines 229-243: the next case of the current suite, or the next suite.
IngestCaseStep(st) ==
    LET cases == st.p.suites[st.si].cases
    IN  IF st.ci > Len(cases) THEN [st EXCEPT !.pc = "suite", !.si = @ + 1]
        ELSE
        LET f == CaseFields(st.run_id, st.suite_id, cases[st.ci])
        IN  IF ~TestCaseValid(f) THEN [st EXCEPT !.pc = "error"]
            ELSE [st EXCEPT
                    !.db = create_document(st.db, "testcase", TestCase(f)),
                    !.case_id = Str(NewOid(st.db)),
                    !.pc = "log", !.li = 1]

\* Lines 245-255: the next log of the current case, or the next case.
IngestLogStep(st) ==
    LET logs == st.p.suites[st.si].cases[st.ci].logs
    IN  IF st.li > Len(logs) THEN [st EXCEPT !.pc = "case", !.ci = @ + 1]
        ELSE
        LET l == logs[st.li]
            f == LogFields(st.run_id, st.case_id, l, st.clock)
            t == IF l.timestamp = None THEN st.clock + 1 ELSE st.clock
        IN  IF ~LogEntryValid(f) THEN [st EXCEPT !.pc = "error", !.clock = t]
            ELSE [st EXCEPT
                    !.db = create_document(st.db, "logentry", LogEntry(f)),
                    !.clock = t,
                    !.li = @ + 1]

\* Lines 257-271: the run's counters are set to the accumulated sums.
IngestUpdateStep(st) ==
    [st EXCEPT
       !.db.testrun = update_one(@, to_object_id(st.run_id), RunAggregates(st)),
       !.pc = "done"]

IngestStep(st) ==
    CASE st.pc = "run" -> IngestRunStep(st)
      [] st.pc = "suite" -> IngestSuiteStep(st)
      [] st.pc = "case" -> IngestCaseStep(st)
      [] st.pc = "log" -> IngestLogStep(st)
      [] st.pc = "update" -> IngestUpdateStep(st)
      [] OTHER -> st

\* The handler run from st to its return ("done") or to the exception that
\* ends it ("error").
RECURSIVE IngestRunToEnd(_)
IngestRunToEnd(st) ==
    IF st.pc \in {"done", "error"} THEN st ELSE IngestRunToEnd(IngestStep(st))

\* --------------------------------------------------------------- retrieval

\* The order of a sort key: a missing (null) key sorts before every value.
KeyLE(a, b) == a = None \/ (b # None /\ Val(a) <= Val(b))

\* cursor.sort(key, 1) over a set of <<key, document>> pairs: every
\* arrangement of the documents in which the keys ascend.  The store fixes no
\* order among documents with equal keys, so each of them is a possible result.
RECURSIVE Sorted(_)
Sorted(S) ==
    IF S = {} THEN {<<>>}
    ELSE UNION {{<<m[2]>> \o r : r \in Sorted(S \ {m})} :
                m \in {x \in S : \A y \in S : KeyLE(x[1], y[1])}}

Reverse(seq) == [i \in 1..Len(seq) |-> seq[Len(seq) + 1 - i]]

\* cursor.sort(key, -1)
SortedDesc(S) == {Reverse(r) : r \in Sorted(S)}

Range(seq) == {seq[i] : i \in 1..Len(seq)}

\* The sequences that take their i-th element from the i-th set.
RECURSIVE SeqProduct(_)
SeqProduct(sets) ==
    IF sets = <<>> THEN {<<>>}
    ELSE {<<h>> \o t : h \in Head(sets), t \in SeqProduct(Tail(sets))}

DateFields == {"started_at", "finished_at", "timestamp"}

\* serialize_doc: _id becomes the string id, datetimes become ISO strings.
serialize_doc(doc) ==
    [k \in (DOMAIN doc \ {"_id"}) \cup
           (IF "_id" \in DOMAIN doc THEN {"id"} ELSE {}) |->
        IF k = "id" /\ "_id" \in DOMAIN doc THEN Str(doc._id)
        ELSE IF k \in DateFields THEN {IsoFormat(t) : t \in doc[k]}
        ELSE doc[k]]

\* Line 119 without its sort: the logs of a case as they were inserted.
CaseTreesUnsorted(d, c) ==
    {Merge([logs |-> Map(Find(d.logentry, LAMBDA x : x.case_id = Str(c._id)),
                         serialize_doc)],
           serialize_doc(c))}

\* Line 119 and serialize_doc_suite: a case with its logs sorted by timestamp.
CaseTrees(d, c) ==
    LET logs == Sorted({<<l.timestamp, l>> :
                        l \in {x \in Range(d.logentry) : x.case_id = Str(c._id)}})
    IN  {Merge([logs |-> Map(ls, serialize_doc)], serialize_doc(c)) : ls \in logs}

\* A slip in line 117: the cases are found by the suite's run_id.
SuiteTreesByRun(d, s) ==
    LET cases == Find(d.testcase, LAMBDA c : c.run_id = s.run_id)
        trees == SeqProduct([i \in 1..Len(cases) |-> CaseTrees(d, cases[i])])
    IN  {Merge([cases |-> cs], serialize_doc(s)) : cs \in trees}

\* Lines 117-118 and 121: a suite with its cases in insertion order.
SuiteTrees(d, s) ==
    LET cases == Find(d.testcase, LAMBDA c : c.suite_id = Str(s._id))
        trees == SeqProduct([i \in 1..Len(cases) |-> CaseTrees(d, cases[i])])
    IN  {Merge([cases |-> cs], serialize_doc(s)) : cs \in trees}

\* get_run_detail(run_id): the responses the handler can give.
get_run_detail(d, run_id) ==
    IF ~WellFormed(run_id) THEN {[code |-> 400, detail |-> "Invalid id"]}
    ELSE
    LET run == FindById(d.testrun, to_object_id(run_id))
    IN  IF run = <<>> THEN {[code |-> 404, detail |-> "Run not found"]}
        ELSE
        LET suites == Sorted({<<s.order, s>> :
                              s \in {x \in Range(d.testsuite) : x.run_id = run_id}})
        IN  UNION {{[code |-> 200,
                     body |-> Merge([suites |-> ts], serialize_doc(run[1]))] :
                    ts \in SeqProduct([i \in 1..Len(ss) |-> SuiteTrees(d, ss[i])])} :
                   ss \in suites}

\* list_runs' default limit.
DefaultLimit == 50

Take(seq, n) == SubSeq(seq, 1, IF n < Len(seq) THEN n ELSE Len(seq))

\* cursor.limit(n): 0 means no limit, a negative n limits to -n.
Limit(seq, n) == IF n = 0 THEN seq ELSE Take(seq, IF n < 0 THEN -n ELSE n)

\* list_runs(limit, status, tag): an absent (or empty) status or tag does not
\* filter; tags matches a run whose list holds the tag.
list_runs(d, limit, status, tag) ==
    LET match(r) == /\ (status # None => r.status = Val(status))
                    /\ (tag # None => Val(tag) \in Range(r.tags))
        runs == SortedDesc({<<r.started_at, r>> :
                            r \in {x \in Range(d.testrun) : match(x)}})
    IN  {[code |-> 200, body |-> Map(Limit(rs, limit), serialize_doc)] :
         rs \in runs}

\* ------------------------------------------------------------------ inputs

\* A well-formed id no document has, and a second one for a body whose parent
\* id differs from the path's.
UnknownId == <<98, "lower">>

MismatchId == <<99, "lower">>

Upper(s) == <<s[1], "upper">>

\* The id of the last document inserted in a collection, if any.
LastId(coll) == IF coll = <<>> THEN {} ELSE {Str(coll[Len(coll)]._id)}

FirstId(coll) == IF coll = <<>> THEN {} ELSE {Str(coll[1]._id)}

\* The id strings a caller passes for a run: the id of the last run as the
\* store printed it and upper-cased, an unknown id and a malformed one.
RunIds(coll) ==
    LastId(coll) \cup {Upper(s) : s \in LastId(coll)} \cup {UnknownId, BadId}

RawRun(status, started_at, total, tags) ==
    [name |-> Some("run"), status |-> status, started_at |-> started_at,
     finished_at |-> None, duration_ms |-> None, total |-> total,
     passed |-> total, failed |-> None, skipped |-> None, blocked |-> None,
     tags |-> tags]

\* Bodies of POST /api/runs; the last one does not validate.
RunInputs ==
    {RawRun(None, None, None, <<>>),
     RawRun(Some("passed"), Some(0), Some(3), <<"smoke">>),
     RawRun(Some("bogus"), None, Some(-1), <<>>)}

RawSuiteBody(run_id, order) ==
    [run_id |-> Some(run_id), name |-> Some("suite"), status |-> None,
     duration_ms |-> None, total |-> Some(1), passed |-> None,
     failed |-> None, skipped |-> None, order |-> order]

RawCaseBody(run_id, suite_id) ==
    [run_id |-> Some(run_id), suite_id |-> Some(suite_id),
     name |-> Some("case"), status |-> Some("failed"), duration_ms |-> None,
     retries |-> None]

RawLogBody(run_id, case_id, timestamp) ==
    [run_id |-> Some(run_id), case_id |-> Some(case_id), level |-> None,
     message |-> Some("added"), timestamp |-> timestamp]

RawFinish(status, finished_at, duration_ms, total) ==
    [status |-> status, finished_at |-> finished_at,
     duration_ms |-> duration_ms, total |-> total, passed |-> total,
     failed |-> None, skipped |-> None, blocked |-> None]

\* Bodies of PATCH /api/runs/{run_id}/finish.
FinishInputs ==
    {RawFinish(Some("passed"), Some(0), None, Some(5)),
     RawFinish(Some("bogus"), None, Some(-5), None)}

RawLog(withIds, level, timestamp, message) ==
    [run_id |-> IF withIds THEN Some(BadId) ELSE None,
     case_id |-> IF withIds THEN Some(BadId) ELSE None,
     level |-> level, message |-> Some(message), timestamp |-> timestamp]

RawCase(name, status, duration_ms, logs) ==
    [name |-> Some(name), status |-> Some(status),
     duration_ms |-> duration_ms, retries |-> None, logs |-> logs]

RawSuite(name, status, duration_ms, counters, order, cases) ==
    [name |-> Some(name), status |-> Some(status),
     duration_ms |-> duration_ms, total |-> counters[1],
     passed |-> counters[2], failed |-> counters[3], skipped |-> counters[4],
     order |-> order, cases |-> cases]

RawIngest(started_at, duration_ms, suites) ==
    [name |-> Some("Nightly"), status |-> Some("passed"),
     started_at |-> started_at, finished_at |-> None,
     duration_ms |-> duration_ms, tags |-> <<"nightly">>, suites |-> suites]

L_start == RawLog(TRUE, None, None, "start")

L_ok == RawLog(TRUE, None, None, "ok")

L_old == RawLog(TRUE, Some("ERROR"), Some(0), "old")

C_login == RawCase("login", "passed", None, <<L_start, L_ok>>)

C_late == RawCase("late", "failed", None, <<L_start, L_old>>)

C_plain == RawCase("plain", "skipped", None, <<>>)

C_baddur == RawCase("baddur", "passed", Some(-1), <<L_start>>)

\* The case of the spec's scenario as written: its logs give only a message.
C_bare ==
    RawCase("login", "passed", None,
            <<RawLog(FALSE, None, None, "start"), RawLog(FALSE, None, None, "ok")>>)

S_auth ==
    RawSuite("Auth", "passed", None, <<Some(2), Some(2), None, None>>, None,
             <<C_login>>)

S_mixed ==
    RawSuite("Mixed", "failed", None, <<Some(3), Some(1), Some(1), Some(1)>>,
             None, <<C_late, C_plain>>)

S_o1 ==
    RawSuite("O1", "skipped", None, <<Some(1), None, None, Some(1)>>, Some(1),
             <<C_plain>>)

S_o0 == RawSuite("O0", "passed", None, <<None, None, None, None>>, Some(0), <<>>)

S_neg ==
    RawSuite("Neg", "passed", None, <<Some(-1), None, Some(-2), None>>, None, <<>>)

S_baddur ==
    RawSuite("BadDur", "passed", Some(-1), <<Some(1), None, None, None>>, None,
             <<C_plain>>)

S_badcase ==
    RawSuite("BadCase", "failed", None, <<Some(3), None, None, None>>, None,
             <<C_plain, C_baddur, C_login>>)

S_bare ==
    RawSuite("Auth", "passed", None, <<Some(2), Some(2), None, None>>, None,
             <<C_bare>>)

\* Bodies of POST /api/ingest.  <<S_bare>> is rejected when the request is
\* parsed; those with S_baddur, S_badcase or a negative run duration fail
\* inside the handler.
IngestInputs ==
    {RawIngest(None, None, suites) :
        suites \in {<<>>, <<S_auth>>, <<S_mixed, S_auth>>,
                    <<S_neg, S_auth>>,
                    <<S_auth, S_baddur, S_mixed>>, <<S_badcase, S_auth>>,
                    <<S_bare>>}}
    \cup {RawIngest(Some(0), None, <<S_o1, S_o0>>),
          RawIngest(None, Some(-1), <<S_auth>>)}

\* Arguments of GET /api/runs.
ListInputs ==
    {<<0, None, None>>, <<1, None, None>>, <<DefaultLimit, None, None>>,
     <<DefaultLimit, Some("passed"), None>>, <<1, None, Some("nightly")>>}

\* Path id and body parent id of a POST that adds a child: the last document
\* of the parent collection (with the same parent id in the body, or with
\* another), or an id no document has.
ParentArgs(coll) ==
    {<<p, p>> : p \in LastId(coll) \cup {UnknownId}}
        \cup {<<p, MismatchId>> : p \in LastId(coll)}

\* Path id and body of PATCH /api/runs/{run_id}/finish.
FinishArgs(coll) ==
    {<<id, raw>> : id \in LastId(coll) \cup {UnknownId}, raw \in FinishInputs}
        \cup {<<Upper(id), RawFinish(Some("failed"), None, None, None)>> :
              id \in LastId(coll)}
        \cup {<<BadId, RawFinish(Some("failed"), None, None, None)>>}

\* ---------------------------------------------------------------- handlers
\* Each handler maps the store d, the clock t and the request to the store and
\* clock it leaves and the response it gives: code 422 is FastAPI's rejection
\* of a body that does not validate, 400 and 404 are the HTTPExceptions the
\* handler raises, 500 is an exception that escapes the handler.

Same(d, t, resp) == [db |-> d, clock |-> t, response |-> resp]

\* Lines 89-96.
create_run(d, t, raw) ==
    IF ~TestRunValid(raw) THEN Same(d, t, [code |-> 422])
    ELSE LET run == TestRun(raw)
             now == t
             data == IF run.started_at = None
                     THEN [run EXCEPT !.started_at = Some(now)] ELSE run
         IN  [db |-> create_document(d, "testrun", data), clock |-> t + 1,
              response |-> [code |-> 200, body |-> [id |-> Str(NewOid(d))]]]

\* Lines 157-163.
create_suite(d, t, run_id, raw) ==
    IF ~TestSuiteValid(raw) THEN Same(d, t, [code |-> 422])
    ELSE LET suite == TestSuite(raw)
         IN  IF suite.run_id # run_id
             THEN Same(d, t, [code |-> 400, detail |-> "run_id mismatch"])
             ELSE [db |-> create_document(d, "testsuite", suite), clock |-> t,
                   response |-> [code |-> 200, body |-> [id |-> Str(NewOid(d))]]]

\* Lines 167-173 without the comparison of lines 169-170.
create_case_unchecked(d, t, suite_id, raw) ==
    IF ~TestCaseValid(raw) THEN Same(d, t, [code |-> 422])
    ELSE [db |-> create_document(d, "testcase", TestCase(raw)), clock |-> t,
          response |-> [code |-> 200, body |-> [id |-> Str(NewOid(d))]]]

\* Lines 167-173.
create_case(d, t, suite_id, raw) ==
    IF ~TestCaseValid(raw) THEN Same(d, t, [code |-> 422])
    ELSE LET case == TestCase(raw)
         IN  IF case.suite_id # suite_id
             THEN Same(d, t, [code |-> 400, detail |-> "suite_id mismatch"])
             ELSE [db |-> create_document(d, "testcase", case), clock |-> t,
                   response |-> [code |-> 200, body |-> [id |-> Str(NewOid(d))]]]

\* Lines 177-185.
add_log(d, t, case_id, raw) ==
    IF ~LogEntryValid(raw) THEN Same(d, t, [code |-> 422])
    ELSE LET log == LogEntry(raw)
         IN  IF log.case_id # case_id
             THEN Same(d, t, [code |-> 400, detail |-> "case_id mismatch"])
             ELSE LET absent == log.timestamp = None
                      data == IF absent THEN [log EXCEPT !.timestamp = Some(t)]
                              ELSE log
                  IN  [db |-> create_document(d, "logentry", data),
                       clock |-> IF absent THEN t + 1 ELSE t,
                       response |->
                           [code |-> 200, body |-> [id |-> Str(NewOid(d))]]]

OptionalFields == {"duration_ms", "finished_at"}

\* Lines 148-150 without the test of line 149: finished_at is always now.
FinishUpdateAlwaysNow(raw, now) ==
    [k \in {x \in DOMAIN raw : raw[x] # None} \cup {"finished_at"} |->
        IF k = "finished_at" THEN Some(now)
        ELSE IF k \in OptionalFields THEN raw[k]
        ELSE Val(raw[k])]

\* Lines 148-150: the fields of the payload that are not None, and finished_at.
FinishUpdate(raw, now) ==
    [k \in {x \in DOMAIN raw : raw[x] # None} \cup {"finished_at"} |->
        IF k = "finished_at" /\ raw.finished_at = None THEN Some(now)
        ELSE IF k \in OptionalFields THEN raw[k]
        ELSE Val(raw[k])]

\* Lines 146-153.  The body of the 200 response is the run read back, or
\* None (JSON null) when find_one finds no run.
finish_run(d, t, run_id, raw) ==
    LET update == FinishUpdate(raw, t)
        t2 == IF raw.finished_at = None THEN t + 1 ELSE t
    IN  IF ~WellFormed(run_id)
        THEN Same(d, t2, [code |-> 400, detail |-> "Invalid id"])
        ELSE LET d2 == [d EXCEPT !.testrun =
                            update_one(@, to_object_id(run_id), update)]
                 run == FindById(d2.testrun, to_object_id(run_id))
             IN  [db |-> d2, clock |-> t2,
                  response |->
                      [code |-> 200,
                       body |-> IF run = <<>> THEN None
                                ELSE Some(serialize_doc(run[1]))]]

\* Line 271, or the exception that ended the handler.
IngestResult(st) ==
    IF st.pc = "done" THEN [code |-> 200, body |-> [id |-> st.run_id]]
    ELSE [code |-> 500]

\* Lines 189-271.
ingest(d, t, raw) ==
    IF ~IngestRunValid(raw) THEN Same(d, t, [code |-> 422])
    ELSE LET st == IngestRunToEnd(IngestStart(d, t, IngestRun(raw)))
         IN  [db |-> st.db, clock |-> st.clock, response |-> IngestResult(st)]

\* ----------------------------------------------------------------- actions

\* One call of a writing handler: the request and its outcome.
Call(req, out) ==
    /\ calls < MaxCalls
    /\ calls' = calls + 1
    /\ db' = out.db
    /\ clock' = out.clock
    /\ request' = req
    /\ response' = out.response
    /\ UNCHANGED <<ingesting, reading>>

\* One call of a reading handler: the store and the clock stay.
Reply(req, resp) ==
    /\ calls < MaxCalls
    /\ calls' = calls + 1
    /\ request' = req
    /\ response' = resp
    /\ UNCHANGED <<db, clock, ingesting, reading>>

CreateRun ==
    \E raw \in RunInputs :
        Call([op |-> "create_run", body |-> raw], create_run(db, clock, raw))

CreateSuite ==
    \E a \in ParentArgs(db.testrun), order \in {None, Some(0)} :
        LET raw == RawSuiteBody(a[2], order)
        IN  /\ a[1] # a[2] => order = None
            /\ Call([op |-> "create_suite", run_id |-> a[1], body |-> raw],
                    create_suite(db, clock, a[1], raw))

CreateCase ==
    \E a \in ParentArgs(db.testsuite) :
        LET raw == RawCaseBody(UnknownId, a[2])
        IN  Call([op |-> "create_case", suite_id |-> a[1], body |-> raw],
                 create_case(db, clock, a[1], raw))

AddLog ==
    \E a \in ParentArgs(db.testcase), timestamp \in {None, Some(0)} :
        LET raw == RawLogBody(UnknownId, a[2], timestamp)
        IN  /\ a[1] # a[2] => timestamp = None
            /\ Call([op |-> "add_log", case_id |-> a[1], body |-> raw],
                    add_log(db, clock, a[1], raw))

FinishRun ==
    \E a \in FinishArgs(db.testrun) :
        Call([op |-> "finish_run", run_id |-> a[1], body |-> a[2]],
             finish_run(db, clock, a[1], a[2]))

Ingest ==
    \E raw \in IngestInputs :
        Call([op |-> "ingest", body |-> raw], ingest(db, clock, raw))

GetRunDetail ==
    \E run_id \in RunIds(db.testrun) \cup FirstId(db.testrun) :
        \E resp \in get_run_detail(db, run_id) :
            Reply([op |-> "get_run_detail", run_id |-> run_id], resp)

ListRuns ==
    \E a \in ListInputs :
        \E resp \in list_runs(db, a[1], a[2], a[3]) :
            Reply([op |-> "list_runs", limit |-> a[1], status |-> a[2],
                   tag |-> a[3]], resp)

\* What an earlier ingest of a two-suite payload left in the store.
Seeded == ingest(EmptyDb, 1, RawIngest(None, None, <<S_mixed, S_auth>>))

\* The state after startup, no call made yet: the store is persistent, so it
\* is empty or holds what earlier calls left.
Init ==
    /\ \E s \in {Same(EmptyDb, 1, [code |-> 0]), Seeded} :
           db = s.db /\ clock = s.clock
    /\ request = [op |-> "none"]
    /\ response = [code |-> 0]
    /\ calls = 0
    /\ ingesting = <<>>
    /\ reading = <<>>

Next ==
    \/ CreateRun
    \/ CreateSuite
    \/ CreateCase
    \/ AddLog
    \/ FinishRun
    \/ Ingest
    \/ GetRunDetail
    \/ ListRuns

Spec == Init /\ [][Next]_vars

\* ------------------------------------------------- requests taken in steps

\* An ingest in progress keeps its locals; the store and the clock are the
\* shared ones, read at each step.
Local(st) == [st EXCEPT !.db = EmptyDb, !.clock = 0]

Resume(st, d, t) == [st EXCEPT !.db = d, !.clock = t]

\* Bodies of the ingests taken in steps; both parse and no record of theirs
\* fails validation.
StepInputs ==
    {RawIngest(None, None, <<S_mixed, S_auth>>), RawIngest(None, None, <<S_auth>>)}

\* Line 190: the request has been parsed and the handler is entered.
BeginIngest ==
    /\ calls < MaxCalls
    /\ ingesting = <<>>
    /\ \E raw \in StepInputs :
          /\ IngestRunValid(raw)
          /\ ingesting' =
                <<[raw |-> raw,
                   st |-> Local(IngestStart(db, clock, IngestRun(raw)))]>>
    /\ calls' = calls + 1
    /\ UNCHANGED <<db, clock, request, response, reading>>

\* One store operation of the handler (or the end of one of its loops).
StepIngest ==
    /\ ingesting # <<>>
    /\ ingesting[1].st.pc \notin {"done", "error"}
    /\ LET st == IngestStep(Resume(ingesting[1].st, db, clock))
       IN  /\ db' = st.db
           /\ clock' = st.clock
           /\ ingesting' = <<[ingesting[1] EXCEPT !.st = Local(st)]>>
    /\ UNCHANGED <<request, response, calls, reading>>

\* Line 271: the handler returns and the response is sent.
ReturnIngest ==
    /\ ingesting # <<>>
    /\ ingesting[1].st.pc \in {"done", "error"}
    /\ request' = [op |-> "ingest", body |-> ingesting[1].raw]
    /\ response' = IngestResult(ingesting[1].st)
    /\ ingesting' = <<>>
    /\ UNCHANGED <<db, clock, calls, reading>>


\* The locals of get_run_detail(run_id) on entry.
ReadStart(run_id) ==
    [run_id |-> run_id, pc |-> "run", run |-> <<>>, suites |-> <<>>, i |-> 1,
     cases |-> <<>>, j |-> 1, cs |-> <<>>, out |-> <<>>,
     result |-> [code |-> 0]]

\* Lines 112-114: find the run, or raise.
ReadRunStep(rd, d) ==
    IF ~WellFormed(rd.run_id)
    THEN {[rd EXCEPT !.pc = "done",
                     !.result = [code |-> 400, detail |-> "Invalid id"]]}
    ELSE
    LET run == FindById(d.testrun, to_object_id(rd.run_id))
    IN  IF run = <<>>
        THEN {[rd EXCEPT !.pc = "done",
                         !.result = [code |-> 404, detail |-> "Run not found"]]}
        ELSE {[rd EXCEPT !.run = run, !.pc = "suites"]}

\* Line 115: the run's suites, sorted by order.
ReadSuitesStep(rd, d) ==
    {[rd EXCEPT !.suites = ss, !.i = 1, !.pc = "cases"] :
        ss \in Sorted({<<s.order, s>> :
                       s \in {x \in Range(d.testsuite) : x.run_id = rd.run_id}})}

\* Lines 116-117 and 120-122: the cases of the next suite, or the result.
ReadCasesStep(rd, d) ==
    IF rd.i > Len(rd.suites)
    THEN {[rd EXCEPT !.pc = "done",
                     !.result = [code |-> 200,
                                 body |-> Merge([suites |-> rd.out],
                                                serialize_doc(rd.run[1]))]]}
    ELSE {[rd EXCEPT
             !.cases = Find(d.testcase,
                            LAMBDA c : c.suite_id = Str(rd.suites[rd.i]._id)),
             !.j = 1, !.cs = <<>>, !.pc = "logs"]}

\* Lines 118-119: the logs of the next case, or the end of the suite.
ReadLogsStep(rd, d) ==
    IF rd.j > Len(rd.cases)
    THEN {[rd EXCEPT
             !.out = Append(@, Merge([cases |-> rd.cs],
                                     serialize_doc(rd.suites[rd.i]))),
             !.i = @ + 1, !.pc = "cases"]}
    ELSE {[rd EXCEPT !.cs = Append(@, ct), !.j = @ + 1] :
             ct \in CaseTrees(d, rd.cases[rd.j])}

\* One query of get_run_detail: the locals it can lead to.
ReadStep(rd, d) ==
    CASE rd.pc = "run" -> ReadRunStep(rd, d)
      [] rd.pc = "suites" -> ReadSuitesStep(rd, d)
      [] rd.pc = "cases" -> ReadCasesStep(rd, d)
      [] rd.pc = "logs" -> ReadLogsStep(rd, d)
      [] OTHER -> {rd}

\* What is known, when a get_run_detail(run_id) starts, of the ingest of that
\* run: its body and whether it is still in progress; <<>> if the run is not
\* that of the ingest in progress or of the last request answered.  Kept
\* beside the locals only to state properties; no step reads it.
IngestOf(run_id) ==
    IF /\ ingesting # <<>>
       /\ ingesting[1].st.pc # "run"
       /\ ingesting[1].st.run_id = run_id
    THEN <<[raw |-> ingesting[1].raw, during |-> TRUE]>>
    ELSE IF request.op = "ingest" /\ response.code = 200
            /\ response.body.id = run_id
    THEN <<[raw |-> request.body, during |-> FALSE]>>
    ELSE <<>>

\* Line 111: the handler is entered.
BeginRead ==
    /\ calls < MaxCalls
    /\ reading = <<>>
    /\ \E run_id \in LastId(db.testrun) \cup {UnknownId, BadId} :
          reading' = <<[rd |-> ReadStart(run_id), of |-> IngestOf(run_id)]>>
    /\ calls' = calls + 1
    /\ UNCHANGED <<db, clock, request, response, ingesting>>

StepRead ==
    /\ reading # <<>>
    /\ reading[1].rd.pc # "done"
    /\ \E rd \in ReadStep(reading[1].rd, db) :
          reading' = <<[reading[1] EXCEPT !.rd = rd]>>
    /\ UNCHANGED <<db, clock, request, response, calls, ingesting>>

\* Line 122: the handler returns and the response is sent.
ReturnRead ==
    /\ reading # <<>>
    /\ reading[1].rd.pc = "done"
    /\ request' = [op |-> "get_run_detail", run_id |-> reading[1].rd.run_id]
    /\ response' = reading[1].rd.result
    /\ reading' = <<>>
    /\ UNCHANGED <<db, clock, calls, ingesting>>

NextRead ==
    \/ BeginIngest
    \/ StepIngest
    \/ ReturnIngest
    \/ BeginRead
    \/ StepRead
    \/ ReturnRead

\* An ingest and a get_run_detail, each taken in steps, with no other request.
SpecRead == Init /\ [][NextRead]_vars

NextFinish ==
    \/ BeginIngest
    \/ StepIngest
    \/ ReturnIngest
    \/ FinishRun
    \/ ListRuns

\* An ingest taken in steps, with finish_run and list_runs between its steps.
SpecFinish == Init /\ [][NextFinish]_vars

\* ------------------------------------------------------------------ claims
\* In every state but the initial ones, request and response are the last
\* call and its result and db is the store that call left; a formula with
\* primes speaks of one call, from the store before it to the store after.

RECURSIVE Concat(_)
Concat(seqs) == IF seqs = <<>> THEN <<>> ELSE Head(seqs) \o Concat(Tail(seqs))

RECURSIVE Sum(_)
Sum(seq) == IF seq = <<>> THEN 0 ELSE Head(seq) + Sum(Tail(seq))

IsPrefix(a, b) == Len(a) <= Len(b) /\ SubSeq(b, 1, Len(a)) = a

\* The documents a call appended to a collection.
Added(before, after) == SubSeq(after, Len(before) + 1, Len(after))

\* The cases of a request body in payload order, each as <<suite position,
\* position in the suite>>, and its logs, each as <<position of its case in
\* CasePaths, position in the case>>.
CasePaths(raw) ==
    Concat([i \in 1..Len(raw.suites) |->
              [j \in 1..Len(raw.suites[i].cases) |-> <<i, j>>]])

RawCaseAt(raw, ij) == raw.suites[ij[1]].cases[ij[2]]

LogPaths(raw) ==
    Concat([m \in 1..Len(CasePaths(raw)) |->
              [k \in 1..Len(RawCaseAt(raw, CasePaths(raw)[m]).logs) |-> <<m, k>>]])

AllIds(d) ==
    {x._id : x \in Range(d.testrun) \cup Range(d.testsuite)
                   \cup Range(d.testcase) \cup Range(d.logentry)}

IngestDone == request.op = "ingest" /\ response.code = 200

\* What C1 asks of one call.
C1_Step ==
    (request'.op = "ingest" /\ response'.code = 200) =>
        LET raw == request'.body
            rid == response'.body.id
            runs == Added(db.testrun, db'.testrun)
            suites == Added(db.testsuite, db'.testsuite)
            cases == Added(db.testcase, db'.testcase)
            logs == Added(db.logentry, db'.logentry)
            cp == CasePaths(raw)
            lp == LogPaths(raw)
        IN  /\ \A c \in Collections \ {"testrun"} : IsPrefix(db[c], db'[c])
            /\ Len(db'.testrun) = Len(db.testrun) + 1
            /\ Cardinality(AllIds(db')) = NewOid(db') - 1
            /\ Len(runs) = 1 /\ Str(runs[1]._id) = rid
            /\ Len(suites) = Len(raw.suites)
            /\ \A i \in 1..Len(suites) :
                   /\ suites[i].run_id = rid
                   /\ suites[i].name = Val(raw.suites[i].name)
            /\ Len(cases) = Len(cp)
            /\ \A m \in 1..Len(cases) :
                   /\ cases[m].run_id = rid
                   /\ cases[m].suite_id = Str(suites[cp[m][1]]._id)
                   /\ cases[m].name = Val(RawCaseAt(raw, cp[m]).name)
            /\ Len(logs) = Len(lp)
            /\ \A n \in 1..Len(logs) :
                   /\ logs[n].run_id = rid
                   /\ logs[n].case_id = Str(cases[lp[n][1]]._id)
                   /\ logs[n].message =
                          Val(RawCaseAt(raw, cp[lp[n][1]]).logs[lp[n][2]].message)

\* C1: a completed ingest of a payload with S suites, C_i cases and L_ij logs
\* appends exactly one Run, S Suites, sum C_i Cases and sum L_ij LogEntries,
\* each with a fresh id, and every added Suite carries the new run's id, every
\* added Case that run_id and the id of the suite it was nested under, every
\* added LogEntry that run_id and the id of the case it was nested under.
C1_IngestAddsCrossReferencedTree == [][C1_Step]_vars

\* A completed ingest, into a store that already holds a run, of two suites
\* with three cases and four logs between them.
C1_Witness ==
    /\ IngestDone
    /\ Len(db.testrun) = 2
    /\ Len(request.body.suites) = 2
    /\ Len(CasePaths(request.body)) = 3
    /\ Len(LogPaths(request.body)) = 4

SuiteSum(raw, field) ==
    Sum([i \in 1..Len(raw.suites) |->
           IF raw.suites[i][field] = None THEN 0 ELSE Val(raw.suites[i][field])])

IngestedRun == FindById(db.testrun, response.body.id[1])[1]

\* C2: right after a completed ingest the stored Run's total, passed, failed
\* and skipped are the sums of the payload's suite-level fields, an absent
\* field counting as 0, and its blocked is 0.
C2_RunCountersAreSuiteSums ==
    IngestDone =>
        /\ IngestedRun.total = SuiteSum(request.body, "total")
        /\ IngestedRun.passed = SuiteSum(request.body, "passed")
        /\ IngestedRun.failed = SuiteSum(request.body, "failed")
        /\ IngestedRun.skipped = SuiteSum(request.body, "skipped")
        /\ IngestedRun.blocked = 0

\* A completed ingest of two suites, one of which omits failed and skipped,
\* with sums that differ from each other and from 0.
C2_Witness ==
    /\ IngestDone
    /\ \E i \in 1..Len(request.body.suites) : request.body.suites[i].failed = None
    /\ IngestedRun.total = 5
    /\ IngestedRun.passed = 3
    /\ IngestedRun.failed = 1

Without(rec, k) == [x \in DOMAIN rec \ {k} |-> rec[x]]

\* The stored documents of a collection that satisfy P, as a set.
Stored(coll, P(_)) == {x \in Range(db[coll]) : P(x)}

TreeReturned == request.op = "get_run_detail" /\ response.code = 200

\* The embedded list holds exactly the documents of the set docs, each once
\* and each as serialize_doc gives it (child is the list it embeds, if any).
EmbedsExactly(list, child, docs) ==
    /\ Len(list) = Cardinality(docs)
    /\ {IF child = "" THEN list[i] ELSE Without(list[i], child) :
            i \in 1..Len(list)} = {serialize_doc(x) : x \in docs}

\* The tree of a 200 response is the stored run with its stored suites, their
\* stored cases and their stored logs.
C3_Tree ==
    TreeReturned =>
        LET tree == response.body
            rid == request.run_id
        IN  /\ Without(tree, "suites") =
                   serialize_doc(FindById(db.testrun, to_object_id(rid))[1])
            /\ EmbedsExactly(tree.suites, "cases",
                             Stored("testsuite", LAMBDA x : x.run_id = rid))
            /\ \A i \in 1..Len(tree.suites) :
                 LET suite == tree.suites[i]
                     mine == Find(db.testcase, LAMBDA x : x.suite_id = suite.id)
                 IN  /\ [j \in 1..Len(suite.cases) |->
                            Without(suite.cases[j], "logs")] =
                        Map(mine, serialize_doc)
                     /\ \A j \in 1..Len(suite.cases) :
                          EmbedsExactly(suite.cases[j].logs, "",
                              Stored("logentry",
                                     LAMBDA x : x.case_id = suite.cases[j].id))

\* Two sequences with the same elements, each as often.
SameBag(a, b) ==
    /\ Len(a) = Len(b)
    /\ \E f \in Permutations(1..Len(a)) : \A i \in 1..Len(a) : a[i] = b[f[i]]

\* The shape of a tree or of a payload: for each suite its name and, for each
\* of its cases in order, the case's name and the messages of its logs.
ShapeOf(suites, text(_)) ==
    [i \in 1..Len(suites) |->
        <<text(suites[i].name),
          [j \in 1..Len(suites[i].cases) |->
              <<text(suites[i].cases[j].name),
                [k \in 1..Len(suites[i].cases[j].logs) |->
                    text(suites[i].cases[j].logs[k].message)]>>]>>]

SameNesting(tree, raw) ==
    LET a == ShapeOf(tree.suites, LAMBDA x : x)
        b == ShapeOf(raw.suites, Val)
    IN  /\ Len(a) = Len(b)
        /\ \E f \in Permutations(1..Len(a)) :
             \A i \in 1..Len(a) :
                /\ a[i][1] = b[f[i]][1]
                /\ Len(a[i][2]) = Len(b[f[i]][2])
                /\ \A j \in 1..Len(a[i][2]) :
                      /\ a[i][2][j][1] = b[f[i]][2][j][1]
                      /\ SameBag(a[i][2][j][2], b[f[i]][2][j][2])

\* get_run_detail called, right after a completed ingest, on the id the
\* ingest returned.
ReadsBackIngest ==
    /\ IngestDone
    /\ request'.op = "get_run_detail"
    /\ request'.run_id = response.body.id

C3_Step == ReadsBackIngest => response'.code = 200 /\ SameNesting(response'.body, request.body)

\* C3: the tree get_run_detail returns for an existing run is the run with
\* exactly the stored suites whose run_id is the requested id, each suite
\* with exactly the stored cases whose suite_id is its id, in insertion order,
\* each case with exactly the stored logs whose case_id is its id; and read
\* right after a completed ingest, on the id it returned, the tree nests the
\* same suites, cases and logs as the payload.
C3_TreeIsStoredHierarchy == []C3_Tree /\ [][C3_Step]_vars

\* A tree of two suites, one with two cases, with logs under two cases, read
\* from a store that holds suites of another run as well.
C3_Witness ==
    /\ TreeReturned
    /\ Len(response.body.suites) = 2
    /\ \E i \in 1..2 : Len(response.body.suites[i].cases) = 2
    /\ \A i \in 1..2 : \E j \in 1..Len(response.body.suites[i].cases) :
           Len(response.body.suites[i].cases[j].logs) = 2
    /\ Len(db.testsuite) > 2

\* The orders of the embedded suites ascend (a suite without order, which
\* only create_suite can store, comes before those with one).
C5_Sorted ==
    TreeReturned =>
        \A i, j \in 1..Len(response.body.suites) :
            i < j => LET a == response.body.suites[i].order
                         b == response.body.suites[j].order
                     IN  a = None \/ (b # None /\ Val(a) <= Val(b))

OrdersOmitted(raw) == \A i \in 1..Len(raw.suites) : raw.suites[i].order = None

\* After a completed ingest of a payload without orders, the suite stored
\* for payload position k (from 0) has order k.
C5_Stored ==
    (IngestDone /\ OrdersOmitted(request.body)) =>
        LET mine == Find(db.testsuite, LAMBDA x : x.run_id = response.body.id)
        IN  /\ Len(mine) = Len(request.body.suites)
            /\ \A i \in 1..Len(mine) :
                  /\ mine[i].order = Some(i - 1)
                  /\ mine[i].name = Val(request.body.suites[i].name)

C5_Step ==
    (ReadsBackIngest /\ OrdersOmitted(request.body)) =>
        /\ response'.code = 200
        /\ [i \in 1..Len(response'.body.suites) |-> response'.body.suites[i].name]
           = [i \in 1..Len(request.body.suites) |-> Val(request.body.suites[i].name)]

\* C5: the suites of a returned tree are sorted by order ascending; and when
\* the ingested payload gave no suite an order, the suite at payload position
\* k is stored with order k (from 0) and the tree read back lists the suites
\* in payload order.
C5_SuitesSortedByOrder == []C5_Sorted /\ []C5_Stored /\ [][C5_Step]_vars

\* A tree read back after the ingest, into an empty store, of two suites
\* without order: they come back in payload order with orders 0 and 1.
C5_Witness ==
    /\ TreeReturned
    /\ calls = 2
    /\ Len(db.testrun) = 1
    /\ [i \in 1..Len(response.body.suites) |->
           <<response.body.suites[i].name, response.body.suites[i].order>>]
       = <<<<"Mixed", Some(0)>>, <<"Auth", Some(1)>>>>

TimeOf(log) == Val(log.timestamp)[2]

\* C6: in every case of a returned tree the logs are sorted by timestamp
\* ascending, in whatever order ingest or add_log inserted them.
C6_LogsSortedByTimestamp ==
    TreeReturned =>
        \A i \in 1..Len(response.body.suites) :
            \A j \in 1..Len(response.body.suites[i].cases) :
                LET logs == response.body.suites[i].cases[j].logs
                IN  \A k, l \in 1..Len(logs) :
                        k < l => TimeOf(logs[k]) <= TimeOf(logs[l])

\* A tree with a case of three logs, where one that ingest inserted second and
\* one that add_log inserted last both come before the one inserted first.
C6_Witness ==
    /\ TreeReturned
    /\ \E i \in 1..Len(response.body.suites) :
         \E j \in 1..Len(response.body.suites[i].cases) :
            LET logs == response.body.suites[i].cases[j].logs
            IN  Len(logs) = 2 /\ logs[1].id[1] > logs[2].id[1]
    /\ \E i \in 1..Len(response.body.suites) :
         \E j \in 1..Len(response.body.suites[i].cases) :
            LET logs == response.body.suites[i].cases[j].logs
            IN  /\ Len(logs) = 3
                /\ logs[1].message = "added"
                /\ logs[1].id[1] > logs[3].id[1]

NoRunFor(rid) == \A x \in Range(db.testrun) : x._id # rid[1]

\* C7: get_run_detail answers 404 to a well-formed id that matches no stored
\* run and 400 to a malformed id; neither answer is a server fault or carries
\* a tree.
C7_UnknownAndMalformedIds ==
    request.op = "get_run_detail" =>
        /\ request.run_id[2] = "bad" =>
               response = [code |-> 400, detail |-> "Invalid id"]
        /\ (request.run_id[2] # "bad" /\ NoRunFor(request.run_id)) =>
               response = [code |-> 404, detail |-> "Run not found"]

\* A malformed id refused although the store holds runs.
C7_Witness ==
    /\ request.op = "get_run_detail"
    /\ request.run_id = BadId
    /\ response.code = 400
    /\ db.testrun # <<>>

\* The logs of a request body, in payload order.
RawLogs(raw) ==
    LET lp == LogPaths(raw)
    IN  [n \in 1..Len(lp) |-> RawCaseAt(raw, CasePaths(raw)[lp[n][1]]).logs[lp[n][2]]]

MessageOnly(l) ==
    /\ l.run_id = None /\ l.case_id = None
    /\ l.level = None /\ l.timestamp = None
    /\ l.message # None

\* C4: an ingest whose logs give only a message is accepted, and its logs are
\* stored in payload order under the new run, with level INFO and the time
\* of ingestion.
C4_MessageOnlyLogsAccepted ==
    (/\ request.op = "ingest"
     /\ RawLogs(request.body) # <<>>
     /\ ForAll(RawLogs(request.body), MessageOnly)) =>
        /\ response.code = 200
        /\ LET mine == Find(db.logentry, LAMBDA x : x.run_id = response.body.id)
               logs == RawLogs(request.body)
           IN  /\ Len(mine) = Len(logs)
               /\ \A n \in 1..Len(mine) :
                     /\ mine[n].message = Val(logs[n].message)
                     /\ mine[n].level = "INFO"
                     /\ mine[n].timestamp # None

ParentField(op) ==
    CASE op = "create_suite" -> "run_id"
      [] op = "create_case" -> "suite_id"
      [] op = "add_log" -> "case_id"

AddsChild(req) == req.op \in {"create_suite", "create_case", "add_log"}

Mismatched(req) ==
    AddsChild(req) /\ req.body[ParentField(req.op)] # Some(req[ParentField(req.op)])

C8_Step ==
    Mismatched(request') =>
        /\ response' = [code |-> 400,
                        detail |-> IF request'.op = "create_suite" THEN "run_id mismatch"
                                   ELSE IF request'.op = "create_case" THEN "suite_id mismatch"
                                   ELSE "case_id mismatch"]
        /\ db' = db

\* C8: create_suite, create_case and add_log answer a record whose parent id
\* differs from the id in the path with the mismatch error (400), and insert
\* nothing: the store is as it was.
C8_MismatchRejectedWithoutInsert == [][C8_Step]_vars

\* create_case refused for a case that names another suite than the stored
\* suite of the path.
C8_Witness ==
    /\ request.op = "create_case"
    /\ Mismatched(request)
    /\ response.code = 400
    /\ \E x \in Range(db.testsuite) : Str(x._id) = request.suite_id

C9_Step ==
    (/\ request'.op = "finish_run"
     /\ request'.run_id[2] # "bad"
     /\ \A x \in Range(db.testrun) : x._id # request'.run_id[1]) =>
        /\ response'.code = 404
        /\ db' = db

\* C9: finish_run on a well-formed id that matches no stored run fails with
\* not found (404) and leaves the store as it was.
C9_FinishUnknownIsNotFound == [][C9_Step]_vars

C10_Step ==
    (/\ request'.op = "finish_run"
     /\ request'.run_id[2] # "bad"
     /\ \E x \in Range(db.testrun) : x._id = request'.run_id[1]) =>
        LET oid == request'.run_id[1]
            raw == request'.body
            old == FindById(db.testrun, oid)[1]
            new == FindById(db'.testrun, oid)[1]
            supplied == {k \in DOMAIN raw : raw[k] # None}
        IN  /\ \A k \in supplied :
                   new[k] = IF k \in {"finished_at", "duration_ms"} THEN raw[k]
                            ELSE Val(raw[k])
            /\ raw.finished_at = None => new.finished_at = Some(clock)
            /\ DOMAIN new = DOMAIN old
            /\ \A k \in DOMAIN old \ (supplied \cup {"finished_at"}) :
                   new[k] = old[k]
            /\ Len(db'.testrun) = Len(db.testrun)
            /\ \A i \in 1..Len(db.testrun) :
                   db.testrun[i]._id # oid => db'.testrun[i] = db.testrun[i]
            /\ \A c \in Collections \ {"testrun"} : db'[c] = db[c]
            /\ response'.code = 200
            /\ response'.body = Some(serialize_doc(new))

\* C10: finish_run on an existing run sets the fields its payload supplies,
\* and finished_at to the current time when the payload has none; the run's
\* other fields, the other runs and all suites, cases and logs stay as they
\* were, and the run returned is the stored run after the update.
C10_FinishSetsOnlySuppliedFields == [][C10_Step]_vars

\* finish_run answered with a run that has the supplied status, total and
\* finished_at and kept its name, while another run is stored beside it.
C10_Witness ==
    /\ request.op = "finish_run"
    /\ response.code = 200
    /\ response.body # None
    /\ request.body.finished_at = Some(0)
    /\ Val(response.body).finished_at = Some(IsoFormat(0))
    /\ Val(response.body).total = 5
    /\ Val(response.body).name = "Nightly"
    /\ Len(db.testrun) = 2

\* C11: in every reachable state every stored suite's run_id is the id of a
\* stored run, every stored case's suite_id is the id of a stored suite and
\* every stored log's case_id is the id of a stored case.
C11_ReferentialIntegrity ==
    /\ \A s \in Range(db.testsuite) :
           \E r \in Range(db.testrun) : Str(r._id) = s.run_id
    /\ \A c \in Range(db.testcase) :
           \E s \in Range(db.testsuite) : Str(s._id) = c.suite_id
    /\ \A l \in Range(db.logentry) :
           \E c \in Range(db.testcase) : Str(c._id) = l.case_id

\* The ids of the suites, cases and logs that carry run id rid in store d.
TreeIds(d, coll, rid) == {x._id : x \in {y \in Range(d[coll]) : y.run_id = rid}}

\* The names of the suites of run rid, in insertion order.
SuiteNames(d, rid) ==
    LET mine == Find(d.testsuite, LAMBDA x : x.run_id = rid)
    IN  [i \in 1..Len(mine) |-> mine[i].name]

C12_Step ==
    (/\ IngestDone
     /\ request'.op = "ingest"
     /\ request'.body = request.body
     /\ response'.code = 200) =>
        LET a == response.body.id
            b == response'.body.id
        IN  /\ a # b
            /\ \A c \in Collections : IsPrefix(db[c], db'[c])
            /\ \A c \in Collections \ {"testrun"} :
                  /\ TreeIds(db', c, a) = TreeIds(db, c, a)
                  /\ TreeIds(db', c, a) \cap TreeIds(db', c, b) = {}
                  /\ Cardinality(TreeIds(db', c, b)) = Cardinality(TreeIds(db', c, a))
            /\ \A x \in Range(db'.testcase) :
                  x.run_id = b => x.suite_id[1] \in TreeIds(db', "testsuite", b)
            /\ \A x \in Range(db'.logentry) :
                  x.run_id = b => x.case_id[1] \in TreeIds(db', "testcase", b)

\* C12: a second ingest of an identical payload, right after the first,
\* returns another run id and adds a second tree of as many suites, cases
\* and logs; the two trees share no record, each record of the second
\* references parents of the second only, and the records of the first are
\* left as they were.
C12_IngestTwiceGivesTwoTrees == [][C12_Step]_vars

\* Two ingests of the same two-suite payload into the empty store: two runs,
\* the same suite names under each, eight logs.
C12_Witness ==
    /\ IngestDone
    /\ calls = 2
    /\ Len(db.testrun) = 2
    /\ Len(db.logentry) = 8
    /\ SuiteNames(db, Str(db.testrun[1]._id)) = <<"Mixed", "Auth">>
    /\ SuiteNames(db, Str(db.testrun[2]._id)) = <<"Mixed", "Auth">>

\* The records of a request body in the order the handler builds them, each
\* with its collection, its name or message and whether its model accepts it (a negative
\* duration_ms is what IngestSuite and IngestCase let through and TestSuite
\* and TestCase refuse).
Preorder(raw) ==
    Concat([i \in 1..Len(raw.suites) |->
        <<[coll |-> "testsuite", text |-> Val(raw.suites[i].name),
           ok |-> NonNegOpt(raw.suites[i].duration_ms)]>>
        \o Concat([j \in 1..Len(raw.suites[i].cases) |->
              <<[coll |-> "testcase", text |-> Val(raw.suites[i].cases[j].name),
                 ok |-> NonNegOpt(raw.suites[i].cases[j].duration_ms)]>>
              \o [k \in 1..Len(raw.suites[i].cases[j].logs) |->
                     [coll |-> "logentry",
                      text |-> Val(raw.suites[i].cases[j].logs[k].message),
                      ok |-> TRUE]]])])

\* The position of the first record its model refuses (past the end if none).
FirstBad(raw) ==
    LET pre == Preorder(raw)
        bad == {n \in 1..Len(pre) : ~pre[n].ok}
    IN  IF bad = {} THEN Len(pre) + 1
        ELSE CHOOSE n \in bad : \A m \in bad : n <= m

\* The request is an ingest that passes the parsing of its body and the
\* validation of its run, and holds a suite or case that fails validation.
FailsInside(req) ==
    /\ req.op = "ingest"
    /\ IngestRunValid(req.body)
    /\ NonNegOpt(req.body.duration_ms)
    /\ FirstBad(req.body) <= Len(Preorder(req.body))

C13_Step ==
    FailsInside(request') =>
        LET raw == request'.body
            pre == Preorder(raw)
            before(c) == Cardinality({n \in 1..(FirstBad(raw) - 1) : pre[n].coll = c})
            run == Added(db.testrun, db'.testrun)
        IN  /\ response'.code = 422
            /\ "body" \notin DOMAIN response'
            /\ \A c \in Collections : IsPrefix(db[c], db'[c])
            /\ Len(run) = 1
            /\ RunAggregates(run[1]) =
                   [total |-> 0, passed |-> 0, failed |-> 0, skipped |-> 0,
                    blocked |-> 0]
            /\ \A c \in Collections \ {"testrun"} :
                   Len(Added(db[c], db'[c])) = before(c)

\* C13: an ingest in which a suite or a case fails validation ends with a
\* validation error and without a run id; the run and the records built
\* before the failing one stay in the store, none after it is inserted, and
\* the run's counters are not updated.
C13_IngestAbortsWithValidationError == [][C13_Step]_vars

\* C14: in every reachable state every stored run has a status of the data
\* model's enum and non-negative total, passed, failed, skipped, blocked and
\* duration_ms.
C14_StoredRunsAreValid ==
    \A r \in Range(db.testrun) :
        /\ r.status \in {"running", "passed", "failed", "skipped", "blocked"}
        /\ r.total >= 0 /\ r.passed >= 0 /\ r.failed >= 0
        /\ r.skipped >= 0 /\ r.blocked >= 0
        /\ \A ms \in r.duration_ms : ms >= 0

\* The number of cases with the given status among the raw cases.
CountStatus(cases, status) ==
    Cardinality({j \in 1..Len(cases) : cases[j].status = Some(status)})

\* C15: after a completed ingest each stored suite of the new run has total
\* equal to the number of cases the payload nests under it, and passed,
\* failed and skipped equal to the numbers of those cases with that status.
C15_SuiteCountersRollUpCases ==
    IngestDone =>
        LET mine == Find(db.testsuite, LAMBDA x : x.run_id = response.body.id)
        IN  \A i \in 1..Len(mine) :
               LET cases == request.body.suites[i].cases
               IN  /\ mine[i].total = Len(cases)
                   /\ mine[i].passed = CountStatus(cases, "passed")
                   /\ mine[i].failed = CountStatus(cases, "failed")
                   /\ mine[i].skipped = CountStatus(cases, "skipped")

\* The stored runs that a status and a tag (each given or not) select.
Matching(status, tag) ==
    {r \in Range(db.testrun) :
        /\ \A s \in status : r.status = s
        /\ \A t \in tag : \E i \in 1..Len(r.tags) : r.tags[i] = t}

StartOf(run) == Val(run.started_at)[2]

C16_Step ==
    request'.op = "list_runs" =>
        LET body == response'.body
            limit == request'.limit
            all == {serialize_doc(r) : r \in Matching(request'.status, request'.tag)}
            n == IF Cardinality(all) < limit THEN Cardinality(all) ELSE limit
        IN  /\ response'.code = 200
            /\ db' = db
            /\ Len(body) <= limit
            /\ Len(body) = n
            /\ Range(body) \subseteq all
            /\ \A i, j \in 1..Len(body) :
                   i < j => body[i] # body[j] /\ StartOf(body[i]) >= StartOf(body[j])
            /\ \A x \in all \ Range(body) :
                   \A i \in 1..Len(body) : StartOf(body[i]) >= StartOf(x)

\* C16: list_runs answers with stored runs that match the status and the tag
\* given, sorted by started_at descending and cut to the first limit of
\* them: at most limit runs, none left out that started later than one
\* returned; the store is as it was.
C16_ListIsFilteredSortedTruncated == [][C16_Step]_vars

Children == Collections \ {"testrun"}

\* The number of suites, cases and logs of run rid in store d.
TreeSize(d, rid) ==
    Cardinality(TreeIds(d, "testsuite", rid)) + Cardinality(TreeIds(d, "testcase", rid))
        + Cardinality(TreeIds(d, "logentry", rid))

\* Every stored child has its parent in the store.
ParentsStored ==
    /\ \A s \in Range(db.testsuite) :
           \E r \in Range(db.testrun) : Str(r._id) = s.run_id
    /\ \A c \in Range(db.testcase) :
           \E s \in Range(db.testsuite) : Str(s._id) = c.suite_id
    /\ \A l \in Range(db.logentry) :
           \E c \in Range(db.testcase) : Str(c._id) = l.case_id

LastOf(seq) == seq[Len(seq)]

\* The step appends one document to collection c and changes nothing else.
Appends(c) ==
    /\ Len(db'[c]) = Len(db[c]) + 1
    /\ IsPrefix(db[c], db'[c])
    /\ \A o \in Collections \ {c} : db'[o] = db[o]

\* A step of SpecRead that writes: it is a write of the ingest in progress,
\* and it is the insert of the run before any of its records, or the insert
\* of the next record of the payload under the parent inserted last, or,
\* with all records inserted, the update of the run that ends the handler.
C17_Step ==
    db' # db =>
        /\ ingesting # <<>> /\ ingesting' # <<>>
        /\ ingesting[1].st.pc \notin {"done", "error"}
        /\ LET rid == ingesting'[1].st.run_id
               pre == Preorder(ingesting[1].raw)
               n == TreeSize(db, rid)
           IN  \/ /\ Appends("testrun")
                  /\ Str(LastOf(db'.testrun)._id) = rid
                  /\ TreeSize(db', rid) = 0
               \/ /\ n < Len(pre)
                  /\ Appends(pre[n + 1].coll)
                  /\ LET c == pre[n + 1].coll
                         x == LastOf(db'[c])
                     IN  /\ x.run_id = rid
                         /\ pre[n + 1].text =
                                IF c = "logentry" THEN x.message ELSE x.name
                         /\ c = "testcase" =>
                                x.suite_id = Str(LastOf(db.testsuite)._id)
                         /\ c = "logentry" =>
                                x.case_id = Str(LastOf(db.testcase)._id)
               \/ /\ n = Len(pre)
                  /\ \A c \in Children : db'[c] = db[c]
                  /\ Len(db'.testrun) = Len(db.testrun)
                  /\ \A i \in 1..Len(db.testrun) :
                        db.testrun[i]._id # rid[1] => db'.testrun[i] = db.testrun[i]
                  /\ ingesting'[1].st.pc = "done"

\* C17: the writes of one ingest come in a fixed order: the run first, then
\* the suites, cases and logs one at a time in the order of the payload, each
\* case right under its suite and each log right under its case, and last,
\* once all of them are inserted, the update of the run's counters; no child
\* is in the store before its parent.
C17_IngestWritesInFixedOrder == []ParentsStored /\ [][C17_Step]_vars

\* An ingest of two suites, three cases and four logs with all nine of them
\* inserted and the update of the run still to come.
C17_Witness ==
    /\ ingesting # <<>>
    /\ ingesting[1].st.pc = "update"
    /\ Len(ingesting[1].raw.suites) = 2
    /\ TreeSize(db, ingesting[1].st.run_id) = 9
    /\ FindById(db.testrun, ingesting[1].st.run_id[1])[1].total = 0

Counters == {"total", "passed", "failed", "skipped", "blocked"}

\* The step is the last store operation of the ingest in progress: its
\* handler has nothing left to do but return.
IngestCompletes ==
    /\ ingesting # <<>> /\ ingesting' # <<>>
    /\ ingesting[1].st.pc # "done"
    /\ ingesting'[1].st.pc = "done"

C18_Step ==
    IngestCompletes =>
        LET raw == ingesting[1].raw
            oid == ingesting[1].st.run_id[1]
            old == FindById(db.testrun, oid)[1]
            new == FindById(db'.testrun, oid)[1]
        IN  /\ new.total = SuiteSum(raw, "total")
            /\ new.passed = SuiteSum(raw, "passed")
            /\ new.failed = SuiteSum(raw, "failed")
            /\ new.skipped = SuiteSum(raw, "skipped")
            /\ new.blocked = 0
            /\ new.status = old.status
            /\ new.finished_at = old.finished_at
            /\ new.duration_ms = old.duration_ms
            /\ \A k \in DOMAIN old \ Counters : new[k] = old[k]

\* C18: when an ingest completes, with finish_run calls on its run between
\* its steps, the run's total, passed, failed, skipped and blocked are the
\* sums the ingest accumulated, whatever a finish_run wrote to them, and the
\* run's status, finished_at and duration_ms are as they were before the
\* final update, so as a finish_run left them.
C18_FinalUpdateOverwritesCountersOnly == [][C18_Step]_vars

\* An ingest that has completed and not yet returned, its run carrying the
\* finished_at of a finish_run that ran between its steps and not the
\* counters that finish_run wrote.
C18_Witness ==
    /\ ingesting # <<>>
    /\ ingesting[1].st.pc = "done"
    /\ request.op = "finish_run"
    /\ request.run_id = ingesting[1].st.run_id
    /\ request.body.passed = Some(5)
    /\ request.body.finished_at = Some(0)
    /\ response.code = 200
    /\ LET run == FindById(db.testrun, ingesting[1].st.run_id[1])[1]
       IN  /\ run.finished_at = Some(0)
           /\ run.passed = SuiteSum(ingesting[1].raw, "passed")
           /\ run.passed # 5

\* A get_run_detail has its result, not yet sent, and started during or
\* right after the ingest, without orders, of the run it was asked for.
ReadOfIngest ==
    /\ reading # <<>>
    /\ reading[1].rd.pc = "done"
    /\ reading[1].of # <<>>
    /\ OrdersOmitted(reading[1].of[1].raw)

\* The tree's suites are the first suites of the payload, the cases of each
\* the first cases of that suite, and only the last suite of the tree may
\* lack cases.
PrefixShaped(tree, raw) ==
    /\ Len(tree.suites) <= Len(raw.suites)
    /\ \A i \in 1..Len(tree.suites) :
          LET cs == tree.suites[i].cases
              rc == raw.suites[i].cases
          IN  /\ tree.suites[i].name = Val(raw.suites[i].name)
              /\ Len(cs) <= Len(rc)
              /\ \A j \in 1..Len(cs) : cs[j].name = Val(rc[j].name)
              /\ i < Len(tree.suites) => Len(cs) = Len(rc)

CountersOf(run) == [k \in Counters |-> run[k]]

SumsOf(raw) ==
    [k \in Counters |-> IF k = "blocked" THEN 0 ELSE SuiteSum(raw, k)]

\* C19: a get_run_detail for the run of an ingest without orders, started
\* once the run is stored and running between the steps of that ingest or
\* after it, returns a tree whose suites are a prefix of the payload's and
\* whose cases, in each suite, are a prefix of that suite's, with the run's
\* counters either all 0 or the full suite sums; started after the ingest has
\* returned, it returns the whole tree with the full sums.
C19_ReadDuringIngestIsPrefix ==
    ReadOfIngest =>
        LET of == reading[1].of[1]
            result == reading[1].rd.result
        IN  /\ result.code = 200
            /\ PrefixShaped(result.body, of.raw)
            /\ CountersOf(result.body) \in
                   {[k \in Counters |-> 0], SumsOf(of.raw)}
            /\ ~of.during =>
                   /\ SameNesting(result.body, of.raw)
                   /\ CountersOf(result.body) = SumsOf(of.raw)

\* A get_run_detail that ran between the steps of an ingest of two suites
\* and returns one suite with the first of its two cases, and counters 0,
\* while the store already holds both suites.
C19_Witness ==
    /\ ReadOfIngest
    /\ reading[1].of[1].during
    /\ Len(reading[1].of[1].raw.suites) = 2
    /\ Len(reading[1].rd.result.body.suites) = 1
    /\ Len(reading[1].rd.result.body.suites[1].cases) = 1
    /\ reading[1].rd.result.body.total = 0
    /\ Cardinality(TreeIds(db, "testsuite", reading[1].rd.run_id)) = 2

=============================================================================
